---- MODULE Spec2Model ----
(***************************************************************************)
(* Model of the retrieval scoring, image loading and feature merging code  *)
(* of vissl:                                                               *)
(*   src/vissl/utils/instance_retrieval_utils/data_util.py                 *)
(*   src/vissl/utils/misc.py                                               *)
(*                                                                         *)
(* Conventions.  A numpy array is a sequence; position k of the sequence   *)
(* is index k-1 of the array.  Database items, query numbers and sample    *)
(* indices keep the 0-based values the code uses.  Floating point values   *)
(* (AP, mAP, resize ratios) are exact rationals <<n, d>> in lowest terms   *)
(* with d > 0.                                                             *)
(*                                                                         *)
(* compute_map and score_ap_from_ranks_1 are imported by data_util.py from *)
(* vissl.utils.instance_retrieval_utils.evaluate, which is not among the   *)
(* sources; they are modelled from the specification (section 4.1).        *)
(***************************************************************************)
EXTENDS Integers, Sequences, FiniteSets, TLC

\* ------------------------------------------------------------- bounds
\* Queries of a dataset scored by one call of a score method.
MaxQ == 2
\* Images in the database (N_images, cfg["n"]).
NImages == 3
\* Similarity scores are drawn from 0..MaxSim.
MaxSim == 1

\* ---------------------------------------------------------- rationals
RECURSIVE GCD(_, _)
GCD(a, b) == IF b = 0 THEN a ELSE GCD(b, a % b)

Abs(x) == IF x < 0 THEN -x ELSE x

\* n/d in lowest terms, d # 0.
Frac(n, d) ==
    LET g == GCD(Abs(n), Abs(d))
        s == IF d < 0 THEN -1 ELSE 1
    IN  <<(s * n) \div g, (s * d) \div g>>

RZero == <<0, 1>>
ROne == <<1, 1>>
RAdd(a, b) == Frac(a[1] * b[2] + b[1] * a[2], a[2] * b[2])
RDivInt(a, k) == Frac(a[1], a[2] * k)
RLeq(a, b) == a[1] * b[2] <= b[1] * a[2]
RInUnit(a) == RLeq(RZero, a) /\ RLeq(a, ROne)

RECURSIVE RSum(_)
RSum(s) == IF s = <<>> THEN RZero ELSE RAdd(s[1], RSum(Tail(s)))

\* ------------------------------------------------------ array helpers
Range(s) == {s[k] : k \in 1..Len(s)}

Reverse(s) == [k \in 1..Len(s) |-> s[Len(s) + 1 - k]]

RECURSIVE SetToSeq(_)
\* The elements of a finite set of integers, ascending.
SetToSeq(S) ==
    IF S = {} THEN <<>>
    ELSE LET m == CHOOSE x \in S : \A y \in S : x <= y
         IN  <<m>> \o SetToSeq(S \ {m})

\* The sequences of length n over S.
SeqsOf(S, n) == [1..n -> S]

IsPermutationOf(s, S) ==
    /\ Len(s) = Cardinality(S)
    /\ Range(s) = S

\* ------------------------------------------------------------ ranking
RECURSIVE InsertArg(_, _, _)
\* One pass of the insertion sort numpy runs on a short array: item d moves
\* left past the items whose key is strictly greater, so equal keys keep
\* their index order.
InsertArg(s, d, key) ==
    IF s = <<>> THEN <<d>>
    ELSE IF key[d + 1] < key[s[Len(s)] + 1]
         THEN Append(InsertArg(SubSeq(s, 1, Len(s) - 1), d, key), s[Len(s)])
         ELSE Append(s, d)

RECURSIVE ArgSortUpTo(_, _)
ArgSortUpTo(key, n) ==
    IF n = 0 THEN <<>> ELSE InsertArg(ArgSortUpTo(key, n - 1), n - 1, key)

\* numpy argsort of a 1-d array: the 0-based indices, ascending by key.
ArgSort(key) == ArgSortUpTo(key, Len(key))

Negate(row) == [k \in 1..Len(row) |-> -row[k]]

\* m.T for a matrix of ncols columns (kept explicit: a matrix of no rows
\* still has ncols columns).
Transpose(m, ncols) == [c \in 1..ncols |-> [r \in 1..Len(m) |-> m[r][c]]]

\* Column q (0-based) of a matrix.
Col(m, q) == [r \in 1..Len(m) |-> m[r][q + 1]]

\* InstreRanks without the reversal [:, ::-1].
InstreRanksAscending(scores) == [q \in 1..Len(scores) |-> ArgSort(scores[q])]

\* scores.argsort(axis=1)[:, ::-1]: one row of ranked items per query.
InstreRanks(scores) == [q \in 1..Len(scores) |-> Reverse(ArgSort(scores[q]))]

\* np.argsort(sim, axis=1)[:, ::-1]
OxfordRanks(sim) == [q \in 1..Len(sim) |-> Reverse(ArgSort(sim[q]))]

\* sim = sim.T; ranks = np.argsort(-sim, axis=0): column q of the result
\* is the ranking of query q.
RevisitedRanks(sim) ==
    LET simT == Transpose(sim, NImages)
        nq == Len(sim)
        cols == [q \in 1..nq |-> ArgSort(Negate(Col(simT, q - 1)))]
    IN  [r \in 1..NImages |-> [q \in 1..nq |-> cols[q][r]]]

\* -------------------------------------------------- average precision
\* score_ap_from_ranks_1(ranks, nres), of evaluate.py (not among the
\* sources), from the specification: pos holds the 0-based ranks of the
\* positives, ascending; the k-th positive met (k = 1, 2, ...) stands at rank
\* pos[k], where k positives have been seen among pos[k] + 1 items scanned.
\* AP is the mean of these precisions over the nres positives, and 0 when
\* there is no positive.
ScoreApFromRanks1(pos, nres) ==
    IF nres = 0 THEN RZero
    ELSE RDivInt(RSum([k \in 1..Len(pos) |-> Frac(k, pos[k] + 1)]), nres)

RECURSIVE WalkRanked(_, _, _, _)
\* The scan of specification 4.1 over a ranked list: a junk item is skipped,
\* a positive adds its precision (positives seen / non-junk items scanned),
\* a negative only advances the number of items scanned.
\* acc = [sum, ntp, nscan].
WalkRanked(ranked, ok, junk, acc) ==
    IF ranked = <<>> THEN acc
    ELSE LET d == Head(ranked)
             next ==
                 IF d \in junk THEN acc
                 ELSE IF d \in ok
                      THEN [sum |-> RAdd(acc.sum, Frac(acc.ntp + 1, acc.nscan + 1)),
                            ntp |-> acc.ntp + 1,
                            nscan |-> acc.nscan + 1]
                      ELSE [acc EXCEPT !.nscan = acc.nscan + 1]
         IN  WalkRanked(Tail(ranked), ok, junk, next)

ScanQuery(ranked, ok, junk) ==
    WalkRanked(ranked, ok, junk, [sum |-> RZero, ntp |-> 0, nscan |-> 0])

\* Average Precision of one query of compute_map: the mean over the
\* positives found; 0 when none is found.
ComputeAP(ranked, ok, junk) ==
    LET w == ScanQuery(ranked, ok, junk)
    IN  IF w.ntp = 0 THEN RZero ELSE RDivInt(w.sum, w.ntp)

\* compute_map(ranks, gnd_t, ks), of evaluate.py (not among the sources),
\* from the specification: column i of ranks is the ranking of query i,
\* gnd_t[i] its "ok" and "junk" arrays.  The result holds the per-query AP,
\* their arithmetic mean, and the number of negatives each scan counted.
\* Precision at the cut-offs ks is not modelled.
ComputeMap(rks, gnd_t) ==
    LET nq == Len(gnd_t)
        scan == [i \in 1..nq |->
                    ScanQuery(Col(rks, i - 1), Range(gnd_t[i].ok), Range(gnd_t[i].junk))]
        aps == [i \in 1..nq |->
                    ComputeAP(Col(rks, i - 1), Range(gnd_t[i].ok), Range(gnd_t[i].junk))]
    IN  [map |-> RDivInt(RSum(aps), nq),
         aps |-> aps,
         negatives |-> [i \in 1..nq |-> scan[i].nscan - scan[i].ntp]]

\* ------------------------------------------------------ InstreDataset
\* The divisor of nq // 10 in InstreDataset.__init__.
ValDiv == 10

\* self.val_subset = set(rs.choice(nq, nq // 10)): nq // 10 draws with
\* replacement from 0..nq-1, as a set.  The draws of RandomState(123) are
\* fixed but not computed here: any outcome of the draw is allowed.
ValSubsets(nq) ==
    IF nq \div ValDiv = 0 THEN {{}}
    ELSE {S \in SUBSET (0..(nq - 1)) :
              Cardinality(S) >= 1 /\ Cardinality(S) <= nq \div ValDiv}

\* positives = gnd[i][0][0] - 1: the ground truth is 1-based.
Positives(g) == [k \in 1..Len(g) |-> g[k] - 1]

\* numpy accepts an index p of an array of nb entries when -nb <= p < nb ...
IndexInBounds(p, nb) == -nb <= p /\ p < nb

\* ... and reads a negative one from the end.
WrapIndex(p, nb) == IF p < 0 THEN p + nb ELSE p

\* ok = np.zeros(nb, dtype=bool); ok[positives] = True: the items flagged.
OkItems(positives, nb) == {WrapIndex(positives[k], nb) : k \in 1..Len(positives)}

\* PosInRanks with the ranks counted from 1.
PosInRanksOneBased(ok, row) ==
    SetToSeq({r \in 1..Len(row) : row[r] \in ok})

\* pos = np.where(ok[ranks[i]])[0]: the 0-based ranks holding a flagged item.
PosInRanks(ok, row) ==
    LET hits == SetToSeq({r \in 1..Len(row) : row[r] \in ok})
    IN  [k \in 1..Len(hits) |-> hits[k] - 1]

\* ap of one iteration of the loop of eval_from_ranks.
QueryAP(row, g, nb) ==
    ScoreApFromRanks1(PosInRanks(OkItems(Positives(g), nb), row), Len(Positives(g)))

\* One iteration i of the loop of eval_from_ranks on acc = [sum_ap,
\* sum_ap_val, err]; ok[positives] = True raises IndexError on an index out
\* of bounds, which ends the call.
EvalLoopBody(acc, i, row, g, nb, vs) ==
    IF acc.err # "none" THEN acc
    ELSE IF \E k \in 1..Len(g) : ~IndexInBounds(Positives(g)[k], nb)
         THEN [acc EXCEPT !.err = "IndexError"]
         ELSE LET ap == QueryAP(row, g, nb)
              IN  [sum_ap |-> RAdd(acc.sum_ap, ap),
                   sum_ap_val |-> IF i \in vs THEN RAdd(acc.sum_ap_val, ap)
                                  ELSE acc.sum_ap_val,
                   err |-> "none"]

\* EvalReturn with the validation sum divided by nq.
EvalReturnValOverNq(acc, nq, vs) ==
    IF acc.err # "none" THEN [err |-> acc.err]
    ELSE IF nq = 0 \/ Cardinality(vs) = 0 THEN [err |-> "ZeroDivisionError"]
         ELSE [err |-> "none",
               mAP |-> RDivInt(acc.sum_ap, nq),
               mAP_val |-> RDivInt(acc.sum_ap_val, nq)]

\* return sum_ap / nq, sum_ap_val / len(self.val_subset): either division by
\* zero raises ZeroDivisionError.
EvalReturn(acc, nq, vs) ==
    IF acc.err # "none" THEN [err |-> acc.err]
    ELSE IF nq = 0 \/ Cardinality(vs) = 0 THEN [err |-> "ZeroDivisionError"]
         ELSE [err |-> "none",
               mAP |-> RDivInt(acc.sum_ap, nq),
               mAP_val |-> RDivInt(acc.sum_ap_val, Cardinality(vs))]

EvalStart == [sum_ap |-> RZero, sum_ap_val |-> RZero, err |-> "none"]

RECURSIVE EvalLoop(_, _, _, _, _, _)
\* Iterations i, i+1, ..., nq-1 of the loop.
EvalLoop(rks, g, nb, vs, i, acc) ==
    IF i >= Len(rks) THEN acc
    ELSE EvalLoop(rks, g, nb, vs, i + 1,
                  EvalLoopBody(acc, i, rks[i + 1], g[i + 1], nb, vs))

\* The value ap of every iteration the loop of eval_from_ranks runs, in
\* query order: the loop ends at the first iteration that raises IndexError.
EvalAps(rks, g, nb) ==
    LET raising == {i \in 1..Len(rks) :
                       \E k \in 1..Len(g[i]) : ~IndexInBounds(Positives(g[i])[k], nb)}
        n == IF raising = {} THEN Len(rks)
             ELSE (CHOOSE i \in raising : \A j \in raising : i <= j) - 1
    IN  [i \in 1..n |-> QueryAP(rks[i], g[i], nb)]

\* InstreDataset.eval_from_ranks(ranks).
EvalFromRanks(rks, g, nb, vs) ==
    EvalReturn(EvalLoop(rks, g, nb, vs, 0, EvalStart), Len(rks), vs)

\* ------------------------------------ RevisitedInstanceRetrievalDataset
\* ViewEasy with the hard items left out of the junk array.
ViewEasyNoHard(g) == [ok |-> g.easy, junk |-> g.junk]

\* g["ok"] = np.concatenate([gnd[i]["easy"]]); g["junk"] =
\* np.concatenate([gnd[i]["junk"], gnd[i]["hard"]])
ViewEasy(g) == [ok |-> g.easy, junk |-> g.junk \o g.hard]

\* ViewMedium with the hard items also put in the junk array.
ViewMediumHardJunk(g) == [ok |-> g.easy \o g.hard, junk |-> g.junk \o g.hard]

\* g["ok"] = np.concatenate([gnd[i]["easy"], gnd[i]["hard"]]); g["junk"] =
\* np.concatenate([gnd[i]["junk"]])
ViewMedium(g) == [ok |-> g.easy \o g.hard, junk |-> g.junk]

\* ViewHard with the arrays of the Easy view.
ViewHardAsEasy(g) == [ok |-> g.easy, junk |-> g.junk \o g.hard]

\* g["ok"] = np.concatenate([gnd[i]["hard"]]); g["junk"] =
\* np.concatenate([gnd[i]["junk"], gnd[i]["easy"]])
ViewHard(g) == [ok |-> g.hard, junk |-> g.junk \o g.easy]

\* The three loops "for i in range(len(gnd))" that fill gnd_t.
GndEasy(g) == [i \in 1..Len(g) |-> ViewEasy(g[i])]
GndMedium(g) == [i \in 1..Len(g) |-> ViewMedium(g[i])]
GndHard(g) == [i \in 1..Len(g) |-> ViewHard(g[i])]

\* ---------------------------------------------- InstanceRetrievalDataset
\* The floats that are no rational, written like the fractions: nan, inf
\* and -inf.
FNaN == <<0, 0>>
FInf == <<1, 0>>
FNegInf == <<-1, 0>>

\* Values the external evaluation binary may print for one query, read by
\* float(): values the model does not compute, and that score_rnk_partial
\* takes as they come, in [0, 1] or not, negative or not, "nan", "inf" and
\* "-inf" included.
BinaryAPs == {RZero, Frac(1, 4), ROne, Frac(2, 1), Frac(-1, 2), FNaN, FInf, FNegInf}

\* What p.stdout.readlines() holds, stderr included: no line at all, a first
\* line that float() does not convert (a usage message, the shell's "not
\* found"), or a first line that it converts.
BinaryOutputs ==
    {[lines |-> "none"], [lines |-> "text"]} \cup
    {[lines |-> "number", value |-> v] : v \in BinaryAPs}

\* float(p.stdout.readlines()[0])
ParseMap(out) ==
    IF out.lines = "none" THEN [err |-> "IndexError"]
    ELSE IF out.lines = "text" THEN [err |-> "ValueError"]
    ELSE [err |-> "none", map_ |-> out.value]

\* np.mean(maps): nan for an empty list, for a list holding nan and for one
\* holding inf and -inf; inf or -inf for a list holding one of them.
NpMean(maps) ==
    LET has(v) == \E k \in 1..Len(maps) : maps[k] = v
    IN  IF Len(maps) = 0 \/ has(FNaN) \/ (has(FInf) /\ has(FNegInf))
        THEN [nan |-> TRUE, value |-> FNaN]
        ELSE IF has(FInf) THEN [nan |-> FALSE, value |-> FInf]
        ELSE IF has(FNegInf) THEN [nan |-> FALSE, value |-> FNegInf]
        ELSE [nan |-> FALSE, value |-> RDivInt(RSum(maps), Len(maps))]

\* =============================================================== state
VARIABLES
    kind,        \* the dataset object whose score method is called
    scores,      \* the caller's similarity matrix, one row per query
    gnd,         \* the ground truth the dataset object loaded
    val_subset,  \* InstreDataset.val_subset
    pc,          \* "ready" before the call, "done" after it; inside
                 \* InstanceRetrievalDataset.score "maps" between two queries
                 \* "popen" while the call blocks on the output of the
                 \* evaluation binary and "wait" while it blocks on its exit
    ranks,       \* the ranking the call computed
    gnd_E,       \* gnd_t as passed to compute_map for Easy,
    gnd_M,       \*   Medium
    gnd_H,       \*   and Hard
    result,      \* what the call returned, logged or raised
    aps,         \* InstreDataset.eval_from_ranks: ap of every iteration run
    o_i,         \* InstanceRetrievalDataset.score: the next query i
    o_maps,      \*   the values score_rnk_partial returned so far
    o_map_,      \*   map_ of the score_rnk_partial in progress, <<>> before
    o_proc,      \*   the last process p: "none", "running" or "reaped"
    rnk_files,   \*   the .rnk files the call wrote in temp_dir, by query
    \* a call of InstreDataset.eval_from_ranks(ranks), one loop iteration at
    \* a time
    e_nq,        \* nq = ranks.shape[0] = N_queries
    e_vs,        \* self.val_subset
    e_pc,        \* "idle", "loop", "returned"
    e_i,         \* the loop variable i: the next query
    e_acc,       \* [sum_ap, sum_ap_val, err]
    e_aps,       \* the value ap of every iteration so far
    e_ret,       \* the value returned or the error raised
    \* a call of merge_features(output_dir, split, layer, cfg)
    m_cfg,       \* cfg.DISTRIBUTED: [NUM_NODES, NUM_PROC_PER_NODE]
    m_shards,    \* dist_rank -> the rows of the three files of that rank
    m_pc,        \* "idle", "ready", "done"
    m_out,       \* the dictionary returned, or the error raised
    \* a call of an image loading method of InstanceRetrievalImageLoader
    i_im,        \* the image in the file: [w, h]
    i_S,         \* self.S
    i_roi,       \* the roi argument: <<xmin, ymin, xmax, ymax>> or <<>> (None)
    i_roi_type,  \* what kind of object roi is, "none" for None
    i_numpy,     \* the major version of the numpy installed
    i_pc,        \* "idle", "ready", or the method that returned
    i_ret        \* the image returned, or the error raised

oxfordVars == <<o_i, o_maps, o_map_, o_proc, rnk_files>>

scoreVars == <<kind, scores, gnd, val_subset, pc, ranks, gnd_E, gnd_M, gnd_H, result,
               aps, oxfordVars>>

evalVars == <<e_nq, e_vs, e_pc, e_i, e_acc, e_aps, e_ret>>

mergeVars == <<m_cfg, m_shards, m_pc, m_out>>

imageVars == <<i_im, i_S, i_roi, i_roi_type, i_numpy, i_pc, i_ret>>

vars == <<scoreVars, evalVars, mergeVars, imageVars>>

DbItems == 0..(NImages - 1)

\* The similarity matrices of nq queries.
ScoreMatrices(nq) == SeqsOf(SeqsOf(0..MaxSim, NImages), nq)

\* The ground truth of one revisited query as the benchmark files give it:
\* every database item is easy, hard, junk or unlabelled, each label set an
\* array of 0-based items.
DisjointGnds ==
    {[easy |-> SetToSeq({d \in DbItems : f[d] = "easy"}),
      hard |-> SetToSeq({d \in DbItems : f[d] = "hard"}),
      junk |-> SetToSeq({d \in DbItems : f[d] = "junk"})] :
        f \in [DbItems -> {"easy", "hard", "junk", "none"}]}

\* Ground truth with one item under two labels, the other items unlabelled:
\* score reads the arrays of cfg["gnd"] as they are and checks nothing.
OverlappingGnds ==
    {[easy |-> IF "easy" \in L THEN <<d>> ELSE <<>>,
      hard |-> IF "hard" \in L THEN <<d>> ELSE <<>>,
      junk |-> IF "junk" \in L THEN <<d>> ELSE <<>>] :
        d \in DbItems, L \in {{"easy", "junk"}, {"hard", "junk"}, {"easy", "hard"}}}

\* The ground truth of one revisited query.
RevisitedGnds == DisjointGnds \cup OverlappingGnds

\* The ground truth of one INSTRE query: an array of 1-based items.  0 and
\* NImages + 1 name no database item.
InstreGnds == {SetToSeq(S) : S \in SUBSET (0..(NImages + 1))}

EvalIdle ==
    /\ e_nq = 0
    /\ e_vs = {}
    /\ e_pc = "idle"
    /\ e_i = 0
    /\ e_acc = EvalStart
    /\ e_aps = <<>>
    /\ e_ret = <<>>

MergeIdle ==
    /\ m_cfg = <<>>
    /\ m_shards = <<>>
    /\ m_pc = "idle"
    /\ m_out = <<>>

ImageIdle ==
    /\ i_im = <<>>
    /\ i_S = 0
    /\ i_roi = <<>>
    /\ i_roi_type = "none"
    /\ i_numpy = 0
    /\ i_pc = "idle"
    /\ i_ret = <<>>

OthersIdle == EvalIdle /\ MergeIdle /\ ImageIdle

OxfordIdle ==
    /\ o_i = 0
    /\ o_maps = <<>>
    /\ o_map_ = <<>>
    /\ o_proc = "none"
    /\ rnk_files = <<>>

ScoreIdle ==
    /\ OthersIdle
    /\ pc = "ready"
    /\ ranks = <<>>
    /\ gnd_E = <<>>
    /\ gnd_M = <<>>
    /\ gnd_H = <<>>
    /\ result = <<>>
    /\ aps = <<>>
    /\ OxfordIdle

InitInstre ==
    \E nq \in 0..MaxQ :
        /\ kind = "instre"
        /\ scores \in ScoreMatrices(nq)
        /\ gnd \in SeqsOf(InstreGnds, nq)
        /\ val_subset \in ValSubsets(nq)
        /\ ScoreIdle

InitRevisited ==
    \E nq \in 1..MaxQ :
        /\ kind = "revisited"
        /\ scores \in ScoreMatrices(nq)
        /\ gnd \in SeqsOf(RevisitedGnds, nq)
        /\ val_subset = {}
        /\ ScoreIdle

InitOxford ==
    \E nq \in 0..MaxQ :
        /\ kind = "oxford"
        /\ scores \in ScoreMatrices(nq)
        /\ gnd = <<>>
        /\ val_subset = {}
        /\ ScoreIdle

\* InstreDataset.score(scores, temp_dir)
InstreScore ==
    /\ kind = "instre"
    /\ pc = "ready"
    /\ ranks' = InstreRanks(scores)
    /\ result' = EvalFromRanks(ranks', gnd, NImages, val_subset)
    /\ aps' = EvalAps(ranks', gnd, NImages)
    /\ pc' = "done"
    /\ UNCHANGED <<kind, scores, gnd, val_subset, gnd_E, gnd_M, gnd_H, oxfordVars>>
    /\ UNCHANGED <<evalVars, mergeVars, imageVars>>

\* RevisitedInstanceRetrievalDataset.score(sim, temp_dir)
RevisitedScore ==
    /\ kind = "revisited"
    /\ pc = "ready"
    /\ ranks' = RevisitedRanks(scores)
    /\ gnd_E' = GndEasy(gnd)
    /\ gnd_M' = GndMedium(gnd)
    /\ gnd_H' = GndHard(gnd)
    /\ result' = [E |-> ComputeMap(ranks', gnd_E'),
                  M |-> ComputeMap(ranks', gnd_M'),
                  H |-> ComputeMap(ranks', gnd_H')]
    /\ pc' = "done"
    /\ UNCHANGED <<kind, scores, gnd, val_subset, aps, oxfordVars>>
    /\ UNCHANGED <<evalVars, mergeVars, imageVars>>

\* InstanceRetrievalDataset.score(sim, temp_dir), up to the ranking: temp_dir
\* is created and idx is computed, then the list comprehension starts.
OxfordScore ==
    /\ kind = "oxford"
    /\ pc = "ready"
    /\ ranks' = OxfordRanks(scores)
    /\ o_i' = 0
    /\ o_maps' = <<>>
    /\ pc' = "maps"
    /\ UNCHANGED <<kind, scores, gnd, val_subset, gnd_E, gnd_M, gnd_H, aps, result, rnk_files,
                   o_map_, o_proc>>
    /\ UNCHANGED <<evalVars, mergeVars, imageVars>>

\* score_rnk_partial(i, idx[i], temp_dir), up to Popen: the ranking of query i
\* is written to temp_dir/<query>.rnk and the evaluation binary is started.
ScoreRnkPartialPopen ==
    /\ kind = "oxford"
    /\ pc = "maps"
    /\ o_i < Len(scores)
    /\ rnk_files' = Append(rnk_files, ranks[o_i + 1])
    /\ o_proc' = "running"
    /\ o_map_' = <<>>
    /\ pc' = "popen"
    /\ UNCHANGED <<kind, scores, gnd, val_subset, ranks, gnd_E, gnd_M, gnd_H, aps, result,
                   o_i, o_maps>>
    /\ UNCHANGED <<evalVars, mergeVars, imageVars>>

\* score_rnk_partial, readlines and float: the call blocks until the binary
\* closes its output and converts the first line.  An exception of the
\* conversion leaves score, and the process is never waited for.
ScoreRnkPartialRead ==
    /\ kind = "oxford"
    /\ pc = "popen"
    /\ \E out \in BinaryOutputs :
           LET m == ParseMap(out)
           IN  IF m.err # "none"
               THEN /\ result' = [err |-> m.err]
                    /\ pc' = "done"
                    /\ UNCHANGED o_map_
               ELSE /\ o_map_' = m.map_
                    /\ pc' = "wait"
                    /\ UNCHANGED result
    /\ UNCHANGED <<kind, scores, gnd, val_subset, ranks, gnd_E, gnd_M, gnd_H, aps, rnk_files,
                   o_i, o_maps, o_proc>>
    /\ UNCHANGED <<evalVars, mergeVars, imageVars>>

\* score_rnk_partial, p.wait() and return: the call blocks until the process
\* has exited, and the list comprehension takes map_.
ScoreRnkPartialWait ==
    /\ kind = "oxford"
    /\ pc = "wait"
    /\ o_proc' = "reaped"
    /\ o_maps' = Append(o_maps, o_map_)
    /\ o_i' = o_i + 1
    /\ pc' = "maps"
    /\ UNCHANGED <<kind, scores, gnd, val_subset, ranks, gnd_E, gnd_M, gnd_H, aps, result,
                   rnk_files, o_map_>>
    /\ UNCHANGED <<evalVars, mergeVars, imageVars>>

\* score, after the list comprehension: every value and the mean are logged.
OxfordLog ==
    /\ kind = "oxford"
    /\ pc = "maps"
    /\ o_i = Len(scores)
    /\ result' = [err |-> "none", maps |-> o_maps, mean |-> NpMean(o_maps)]
    /\ pc' = "done"
    /\ UNCHANGED <<kind, scores, gnd, val_subset, ranks, gnd_E, gnd_M, gnd_H, aps, oxfordVars>>
    /\ UNCHANGED <<evalVars, mergeVars, imageVars>>

Init == InitInstre \/ InitRevisited \/ InitOxford

Next ==
    \/ InstreScore
    \/ RevisitedScore
    \/ OxfordScore
    \/ ScoreRnkPartialPopen
    \/ ScoreRnkPartialRead
    \/ ScoreRnkPartialWait
    \/ OxfordLog

Spec == Init /\ [][Next]_vars

\* ------------------------------------- eval_from_ranks, step by step
\* Queries of the dataset in a call of eval_from_ranks.
MaxQEval == 10
\* Images in the database of that dataset.
NImagesEval == 2

\* The rankings of one query: the permutations of the database items.
EvalRows ==
    {s \in SeqsOf(0..(NImagesEval - 1), NImagesEval) :
         IsPermutationOf(s, 0..(NImagesEval - 1))}

\* The ground truth of one query: 1-based items of the database.
EvalGnds == {SetToSeq(S) : S \in SUBSET (1..NImagesEval)}

ScoreUnused ==
    /\ kind = "none"
    /\ scores = <<>>
    /\ gnd = <<>>
    /\ val_subset = {}
    /\ pc = "ready"
    /\ ranks = <<>>
    /\ gnd_E = <<>>
    /\ gnd_M = <<>>
    /\ gnd_H = <<>>
    /\ result = <<>>
    /\ aps = <<>>
    /\ OxfordIdle

\* The dataset object is constructed (nq, val_subset) and eval_from_ranks is
\* entered: sum_ap = 0, sum_ap_val = 0.
InitEval ==
    /\ ScoreUnused
    /\ MergeIdle
    /\ ImageIdle
    /\ e_nq \in 0..MaxQEval
    /\ e_vs \in ValSubsets(e_nq)
    /\ e_pc = "loop"
    /\ e_i = 0
    /\ e_acc = EvalStart
    /\ e_aps = <<>>
    /\ e_ret = <<>>

\* One iteration of "for i in range(nq)": the rows ranks[i] and gnd[i] are
\* read here for the first and only time.
EvalIter ==
    /\ e_pc = "loop"
    /\ e_i < e_nq
    /\ \E row \in EvalRows, g \in EvalGnds :
           /\ e_acc' = EvalLoopBody(e_acc, e_i, row, g, NImagesEval, e_vs)
           /\ e_aps' = Append(e_aps, QueryAP(row, g, NImagesEval))
    /\ e_i' = e_i + 1
    /\ UNCHANGED <<e_nq, e_vs, e_pc, e_ret>>
    /\ UNCHANGED <<scoreVars, mergeVars, imageVars>>

\* The return statement after the loop.
EvalDone ==
    /\ e_pc = "loop"
    /\ e_i = e_nq
    /\ e_ret' = EvalReturn(e_acc, e_nq, e_vs)
    /\ e_pc' = "returned"
    /\ UNCHANGED <<e_nq, e_vs, e_i, e_acc, e_aps>>
    /\ UNCHANGED <<scoreVars, mergeVars, imageVars>>

NextEval == EvalIter \/ EvalDone

SpecEval == InitEval /\ [][NextEval]_vars

SpecRevisited == InitRevisited /\ [][RevisitedScore]_vars

\* ------------------------------------------------------ merge_features
\* cfg.DISTRIBUTED.NUM_NODES is drawn from 1..MaxNodes,
MaxNodes == 2
\* cfg.DISTRIBUTED.NUM_PROC_PER_NODE from 1..MaxProcPerNode.
MaxProcPerNode == 2
\* Rows (samples) in the files of one rank.
MaxRows == 2
\* Sample indices are drawn from 0..MaxIndex.
MaxIndex == 2

\* The rows of the files rank{r}_{split}_{layer}_{features,targets,inds}.npy
\* whose inds file holds idxs.  merge_features moves the feature and target
\* rows without reading them: row k of rank r is the token <<"f", r, k>>,
\* <<"t", r, k>>.
ShardOf(r, idxs) ==
    [k \in 1..Len(idxs) |->
        [index |-> idxs[k], feat |-> <<"f", r, k - 1>>, target |-> <<"t", r, k - 1>>]]

\* The inds files of one rank.
IndexLists == UNION {SeqsOf(0..MaxIndex, n) : n \in 0..MaxRows}

\* dist_rank = cfg.DISTRIBUTED.NUM_PROC_PER_NODE * node_id + local_rank
DistRank(cfg, node_id, local_rank) == cfg.NUM_PROC_PER_NODE * node_id + local_rank

\* VisitOrder with the ranks visited in ascending order of dist_rank.
VisitOrderRankAscending(cfg) ==
    [k \in 1..(cfg.NUM_PROC_PER_NODE * cfg.NUM_NODES) |-> k - 1]

\* The ranks in the order the two loops visit them: local_rank outside,
\* node_id inside.
VisitOrder(cfg) ==
    [k \in 1..(cfg.NUM_PROC_PER_NODE * cfg.NUM_NODES) |->
        DistRank(cfg, (k - 1) % cfg.NUM_NODES, (k - 1) \div cfg.NUM_NODES)]

HasKey(d, index) == \E k \in 1..Len(d) : d[k].index = index

RECURSIVE MergeRows(_, _)
\* "for idx in range(num_samples)": a row enters output_feats and
\* output_targets when its index is no key yet.  d holds the entries of both
\* dictionaries in insertion order.
MergeRows(rows, d) ==
    IF rows = <<>> THEN d
    ELSE MergeRows(Tail(rows),
                   IF HasKey(d, Head(rows).index) THEN d ELSE Append(d, Head(rows)))

RECURSIVE MergeShards(_, _, _)
MergeShards(order, shards, d) ==
    IF order = <<>> THEN d
    ELSE MergeShards(Tail(order), shards, MergeRows(shards[Head(order)], d))

\* SortedItems without the sort: the entries in insertion order.
SortedItemsUnsorted(d) == d

\* dict(sorted(output_feats.items())): the entries by ascending key.
SortedItems(d) ==
    LET keys == SetToSeq({d[k].index : k \in 1..Len(d)})
    IN  [j \in 1..Len(keys) |-> d[CHOOSE k \in 1..Len(d) : d[k].index = keys[j]]]

\* merge_features: feats.reshape(N, -1) raises ValueError when N = 0.
MergeFeatures(cfg, shards) ==
    LET d == SortedItems(MergeShards(VisitOrder(cfg), shards, <<>>))
    IN  IF Len(d) = 0 THEN [err |-> "ValueError"]
        ELSE [err |-> "none",
              features |-> [k \in 1..Len(d) |-> d[k].feat],
              targets |-> [k \in 1..Len(d) |-> d[k].target],
              inds |-> [k \in 1..Len(d) |-> d[k].index]]

InitMerge ==
    /\ ScoreUnused
    /\ EvalIdle
    /\ ImageIdle
    /\ m_cfg \in [NUM_NODES : 1..MaxNodes, NUM_PROC_PER_NODE : 1..MaxProcPerNode]
    /\ \E lists \in [0..(m_cfg.NUM_NODES * m_cfg.NUM_PROC_PER_NODE - 1) -> IndexLists] :
           m_shards = [r \in DOMAIN lists |-> ShardOf(r, lists[r])]
    /\ m_pc = "ready"
    /\ m_out = <<>>

MergeCall ==
    /\ m_pc = "ready"
    /\ m_out' = MergeFeatures(m_cfg, m_shards)
    /\ m_pc' = "done"
    /\ UNCHANGED <<m_cfg, m_shards>>
    /\ UNCHANGED <<scoreVars, evalVars, imageVars>>

SpecMerge == InitMerge /\ [][MergeCall]_vars

\* ------------------------------------------ InstanceRetrievalImageLoader
\* An image is [w, h, src, box]: pixels box = <<x0, y0, x1, y1>> of the
\* w x h rendering of region src of the image in the file.  Image.open gives
\* the whole file at its own size; the transforms the loader was built with
\* (self.transforms) keep the geometry.

\* The side above which S = -2 rescales, and the side it rescales to.
SideLimit == 124
SideTarget == 1024

\* Widths and heights of the images in the files.
ImageSides == {2, 4, 47, 94, 128}

\* The values of self.S: -1 keeps the size, -2 is the rule above, a positive
\* value is the length of the larger side.
SValues == {-1, -2, 2, 3, 8}

Max2(a, b) == IF a >= b THEN a ELSE b
Min2(a, b) == IF a <= b THEN a ELSE b

Pow2(k) == 2 ^ k

RECURSIVE FloorLog2(_, _, _)
\* The binary exponent a of the positive rational n / d, 2^a <= n / d <
\* 2^(a+1), with the fraction N / D = (n / d) / 2^a of [1, 2).
FloorLog2(n, d, a) ==
    IF n >= 2 * d THEN FloorLog2(n, 2 * d, a + 1)
    ELSE IF n < d THEN FloorLog2(2 * n, d, a - 1)
    ELSE [a |-> a, N |-> n, D |-> d]

RECURSIVE DivideBits(_, _, _, _)
\* bits more binary digits of the long division rem / D: the remainder left
\* and the last digit written.
DivideBits(rem, D, last, bits) ==
    IF bits = 0 THEN [rem |-> rem, last |-> last]
    ELSE IF 2 * rem >= D THEN DivideBits(2 * rem - D, D, 1, bits - 1)
         ELSE DivideBits(2 * rem, D, 0, bits - 1)

\* The bits of the significand after the leading one, of a double
FractionBits == 52
\* and of a float32.
FractionBits32 == 23

\* The rounding error of the floating-point quotient N / D, for N / D in
\* [1, 2): the float is the quotient plus QuotientError / D units in the last
\* place of its significand of 1 + fb bits (round to nearest, a half to the
\* even significand).
QuotientError(N, D, fb) ==
    LET q == DivideBits(N - D, D, 1, fb)
    IN  IF 2 * q.rem < D THEN -q.rem
        ELSE IF 2 * q.rem > D THEN D - q.rem
        ELSE IF q.last = 0 THEN -q.rem ELSE D - q.rem

RECURSIVE Pow2AtLeast(_, _)
\* 2^k >= m, without computing 2^k.
Pow2AtLeast(k, m) ==
    IF m <= 1 THEN TRUE
    ELSE IF k <= 0 THEN FALSE
    ELSE Pow2AtLeast(k - 1, (m + 1) \div 2)

\* np.round(x * ratio) for an integer x > 0 and the float ratio = n / d > 0,
\* held as the fraction <<n, d>>, in floats of 1 + fb significand bits: the
\* quotient and the product are both rounded to floats before np.round.
\* With T = f + 1/2 the half next to the exact product, the float product is
\* above T, T or below T as the exact product of x and the rounded quotient
\* is beyond half the gap between T and its neighbour float (the gap below
\* 1/2 is half the gap above); y is that product less T, in gaps.  Far from
\* T (|u| / 2d against the gap) the rounding error cannot cross it.  For
\* products below 2^fb.
RoundFloatProduct(x, ratio, fb) ==
    LET n == ratio[1]
        d == ratio[2]
        f == (x * n) \div d
        u == 2 * x * n - (2 * f + 1) * d
        even == IF f % 2 = 0 THEN f ELSE f + 1
        r == FloorLog2(n, d, 0)
        c == QuotientError(r.N, r.D, fb)
        e == FloorLog2(2 * f + 1, 2, 0).a
        g == r.D * Pow2(e - r.a)
        ynum == (IF u = 0 THEN 0 ELSE u * Pow2(fb - e) * g) + 2 * d * x * c
        yden == 2 * d * g
    IN  IF u # 0 /\ Pow2AtLeast(fb - e, 8 * d)
        THEN (IF u > 0 THEN f + 1 ELSE f)
        ELSE IF 2 * ynum > yden THEN f + 1
        ELSE IF (IF f = 0 THEN 4 ELSE 2) * ynum < -yden THEN f
        ELSE even

\* np.round(x * ratio): floating-point multiplication and np.round are
\* symmetric in the sign.
NpRoundProduct(x, ratio, fb) ==
    IF x = 0 \/ ratio[1] = 0 THEN 0
    ELSE IF (x > 0) = (ratio[1] > 0)
         THEN RoundFloatProduct(Abs(x), <<Abs(ratio[1]), ratio[2]>>, fb)
         ELSE -RoundFloatProduct(Abs(x), <<Abs(ratio[1]), ratio[2]>>, fb)

WholeOf(w, h) == <<0, 0, w, h>>

ImageOpen(im) == [w |-> im.w, h |-> im.h, src |-> WholeOf(im.w, im.h),
                  box |-> WholeOf(im.w, im.h)]

\* The ratio apply_img_transform computes from self.S and the larger side:
\* the fraction <<n, d>> stands for the double float(n) / d.
ResizeRatio(S, w, h) ==
    IF S = -1 THEN ROne
    ELSE IF S = -2
         THEN IF Max2(w, h) > SideLimit THEN Frac(SideTarget, Max2(w, h))
              ELSE Frac(-1, 1)
         ELSE Frac(S, Max2(w, h))

\* apply_img_transform(im): [err, im_resized, ratio].  im.resize raises
\* ValueError for a size that is not positive.
ApplyImgTransform(S, im) ==
    LET ratio == ResizeRatio(S, im.w, im.h)
        nh == NpRoundProduct(im.h, ratio, FractionBits)
        nw == NpRoundProduct(im.w, ratio, FractionBits)
    IN  IF nh <= 0 \/ nw <= 0 THEN [err |-> "ValueError"]
        ELSE [err |-> "none",
              im_resized |-> [w |-> nw, h |-> nh, src |-> im.src,
                              box |-> WholeOf(nw, nh)],
              ratio |-> ratio]

\* A slice a:b of an axis of n entries, for 0 <= a and 0 <= b.
SliceLo(a, n) == Min2(a, n)
SliceHi(a, b, n) == Max2(Min2(b, n), Min2(a, n))

\* im_resized[:, roi[1] : roi[3], roi[0] : roi[2]]
SliceImage(im, roi) ==
    [im EXCEPT !.box = <<SliceLo(roi[1], im.w), SliceLo(roi[2], im.h),
                         SliceHi(roi[1], roi[3], im.w), SliceHi(roi[2], roi[4], im.h)>>]

\* The numpy major versions a build may have.
NumpyMajors == {1, 2}

\* What the caller hands over as roi: the float32 array of
\* InstanceRetrievalDataset.get_query_roi, or the 'bbx' entry of the
\* revisited ground truth, a float64 array or a list.
RoiTypes == {"float32", "float64", "list"}

\* The significand of the product roi * ratio: numpy 1 keeps a float32
\* array times a float64 scalar in float32, numpy 2 promotes it to float64
\* (a Python ratio keeps float32 in both, and is exact).
RoiProductBits(roi_type, numpy) ==
    IF roi_type = "float32" /\ numpy = 1 THEN FractionBits32 ELSE FractionBits

\* roi = np.round(roi * ratio).astype(np.int32)
ScaleRoi(roi, ratio, fb) == [k \in 1..4 |-> NpRoundProduct(roi[k], ratio, fb)]

\* img.crop(roi) of an image just opened.
CropImage(im, roi) ==
    [w |-> roi[3] - roi[1], h |-> roi[4] - roi[2], src |-> roi,
     box |-> WholeOf(roi[3] - roi[1], roi[4] - roi[2])]

\* load_and_prepare_image(fname, roi): a list times a float, Python's or
\* numpy's, raises TypeError (a sequence is multiplied by integers only).
LoadAndPrepareImage(S, file, roi, roi_type, numpy) ==
    LET im == ImageOpen(file)
        t == ApplyImgTransform(S, im)
    IN  IF t.err # "none" THEN [err |-> t.err]
        ELSE IF roi # <<>>
             THEN IF roi_type = "list"
                  THEN [err |-> "TypeError"]
                  ELSE [err |-> "none",
                        image |-> SliceImage(t.im_resized,
                                     ScaleRoi(roi, t.ratio, RoiProductBits(roi_type, numpy)))]
             ELSE [err |-> "none", image |-> t.im_resized]

\* load_and_prepare_revisited_image(img_path, roi): the crop is assigned to
\* im_resized, and the next statement assigns the transform of img to it.
LoadAndPrepareRevisitedImage(S, file, roi) ==
    LET img == ImageOpen(file)
        im_resized_1 == IF roi # <<>> THEN CropImage(img, roi) ELSE <<>>
        t == ApplyImgTransform(S, img)
    IN  IF t.err # "none" THEN [err |-> t.err]
        ELSE [err |-> "none", image |-> t.im_resized]

\* The coordinates a region of interest of an image of side n is drawn from.
RoiCoords(n) == {0, 1, n \div 2, n}

\* The regions of interest of a w x h image, and <<>> for None.
Rois(w, h) ==
    {<<>>} \cup
    {<<x0, y0, x1, y1>> : x0 \in RoiCoords(w), y0 \in RoiCoords(h),
                          x1 \in RoiCoords(w), y1 \in RoiCoords(h)}

InitImage ==
    /\ ScoreUnused
    /\ EvalIdle
    /\ MergeIdle
    /\ i_im \in [w : ImageSides, h : ImageSides]
    /\ i_S \in SValues
    /\ i_roi \in {r \in Rois(i_im.w, i_im.h) : r = <<>> \/ (r[1] < r[3] /\ r[2] < r[4])}
    /\ i_roi_type \in (IF i_roi = <<>> THEN {"none"} ELSE RoiTypes)
    /\ i_numpy \in NumpyMajors
    /\ i_pc = "ready"
    /\ i_ret = <<>>

LoadImageCall ==
    /\ i_pc = "ready"
    /\ i_ret' = LoadAndPrepareImage(i_S, i_im, i_roi, i_roi_type, i_numpy)
    /\ i_pc' = "load_and_prepare_image"
    /\ UNCHANGED <<i_im, i_S, i_roi, i_roi_type, i_numpy>>
    /\ UNCHANGED <<scoreVars, evalVars, mergeVars>>

LoadRevisitedImageCall ==
    /\ i_pc = "ready"
    /\ i_ret' = LoadAndPrepareRevisitedImage(i_S, i_im, i_roi)
    /\ i_pc' = "load_and_prepare_revisited_image"
    /\ UNCHANGED <<i_im, i_S, i_roi, i_roi_type, i_numpy>>
    /\ UNCHANGED <<scoreVars, evalVars, mergeVars>>

NextImage == LoadImageCall \/ LoadRevisitedImageCall

SpecImage == InitImage /\ [][NextImage]_vars

\* ============================================================== claims
Views == {"E", "M", "H"}

\* The positive and junk sets the specification gives view v of a query
\* with ground truth g.
ViewPositives(v, g) ==
    IF v = "E" THEN Range(g.easy)
    ELSE IF v = "M" THEN Range(g.easy) \cup Range(g.hard)
    ELSE Range(g.hard)

ViewJunk(v, g) ==
    IF v = "E" THEN Range(g.junk) \cup Range(g.hard)
    ELSE IF v = "M" THEN Range(g.junk)
    ELSE Range(g.junk) \cup Range(g.easy)

\* gnd_t as passed to compute_map for view v.
GndOfView(v) == IF v = "E" THEN gnd_E ELSE IF v = "M" THEN gnd_M ELSE gnd_H

RevisitedDone == kind = "revisited" /\ pc = "done"

\* C1: after RevisitedInstanceRetrievalDataset.score, each of the three
\* views passed to compute_map has one entry per ground-truth query, in
\* query order, and entry i holds: Easy ok = easy(i), junk = junk(i) u
\* hard(i); Medium ok = easy(i) u hard(i), junk = junk(i); Hard ok = hard(i),
\* junk = junk(i) u easy(i).
C1_ViewsAsSpecified ==
    RevisitedDone =>
        \A v \in Views :
            /\ Len(GndOfView(v)) = Len(gnd)
            /\ \A i \in 1..Len(gnd) :
                   /\ Range(GndOfView(v)[i].ok) = ViewPositives(v, gnd[i])
                   /\ Range(GndOfView(v)[i].junk) = ViewJunk(v, gnd[i])

\* Two queries with different ground truth, the first with easy, hard and
\* junk items, have been scored.
C1_Witness ==
    /\ RevisitedDone
    /\ Len(gnd) = 2
    /\ gnd[1].easy # <<>> /\ gnd[1].hard # <<>> /\ gnd[1].junk # <<>>
    /\ gnd[2] # gnd[1]
    /\ gnd[2].hard # <<>>

\* The easy, hard and junk arrays of a query share no item.
LabelsDisjoint(g) ==
    /\ Range(g.easy) \cap Range(g.hard) = {}
    /\ Range(g.easy) \cap Range(g.junk) = {}
    /\ Range(g.hard) \cap Range(g.junk) = {}

\* C2 (as claimed): in every view of every query the ok set and the junk set
\* share no database item, and the items in neither set are exactly the
\* items the scan counted as negatives.
C2_ViewsDisjoint ==
    RevisitedDone =>
        \A v \in Views : \A i \in 1..Len(gnd) :
            LET ok == Range(GndOfView(v)[i].ok)
                junk == Range(GndOfView(v)[i].junk)
            IN  /\ ok \cap junk = {}
                /\ result[v].negatives[i] = Cardinality(DbItems \ (ok \cup junk))

\* C2 (amended): for every query whose easy, hard and junk arrays share no
\* item, in every view the ok set and the junk set share no database item;
\* and for every query, the items in neither set of a view are exactly the
\* items the scan counted as negatives.
C2_DisjointLabelsDisjointViews ==
    RevisitedDone =>
        \A v \in Views : \A i \in 1..Len(gnd) :
            LET ok == Range(GndOfView(v)[i].ok)
                junk == Range(GndOfView(v)[i].junk)
            IN  /\ LabelsDisjoint(gnd[i]) => ok \cap junk = {}
                /\ result[v].negatives[i] = Cardinality(DbItems \ (ok \cup junk))

\* A query with an easy, a hard and an unlabelled item: its Easy view has a
\* positive, a junk item and a negative.
C2_Witness ==
    /\ RevisitedDone
    /\ \E i \in 1..Len(gnd) :
           /\ LabelsDisjoint(gnd[i])
           /\ gnd[i].easy # <<>>
           /\ gnd[i].hard # <<>>
           /\ gnd_E[i].junk = gnd[i].hard
           /\ result.E.negatives[i] = 1

\* Precision at rank r (1-based) of a ranked list: positives among the first
\* r items over the non-junk items among them.
PrecisionAtRank(ranked, ok, junk, r) ==
    Frac(Cardinality({t \in 1..r : ranked[t] \in ok}),
         Cardinality({t \in 1..r : ranked[t] \notin junk}))

\* The mean of the precision at the rank of every positive of the list.
MeanPrecision(ranked, ok, junk) ==
    LET at == SetToSeq({r \in 1..Len(ranked) : ranked[r] \in ok})
    IN  IF at = <<>> THEN RZero
        ELSE RDivInt(RSum([k \in 1..Len(at) |->
                              PrecisionAtRank(ranked, ok, junk, at[k])]),
                     Len(at))

RECURSIVE WithoutItems(_, _)
\* The ranked list with the items of S removed.
WithoutItems(ranked, S) ==
    IF ranked = <<>> THEN <<>>
    ELSE IF Head(ranked) \in S THEN WithoutItems(Tail(ranked), S)
         ELSE <<Head(ranked)>> \o WithoutItems(Tail(ranked), S)

\* The ranked list with the items at ranks r and t exchanged.
SwapRanks(ranked, r, t) ==
    [k \in 1..Len(ranked) |->
        IF k = r THEN ranked[t] ELSE IF k = t THEN ranked[r] ELSE ranked[k]]

\* Every entry of the ground truth of an INSTRE query names a database item.
InstreQueryValid(g) == \A k \in 1..Len(g) : (g[k] - 1) \in DbItems

\* The AP of a revisited query in a view whose ok and junk sets share no
\* item is the mean precision of the claim, the AP of the list with the junk
\* items removed, and unchanged by exchanging two junk items of the list.
RevisitedAPAsDefined ==
    RevisitedDone =>
        \A v \in Views : \A i \in 1..Len(gnd) :
            LET ranked == Col(ranks, i - 1)
                ok == ViewPositives(v, gnd[i])
                junk == ViewJunk(v, gnd[i])
                ap == result[v].aps[i]
            IN  ok \cap junk = {} =>
                /\ ap = MeanPrecision(ranked, ok, junk)
                /\ ap = MeanPrecision(WithoutItems(ranked, junk), ok, {})
                /\ \A r \in 1..Len(ranked), t \in 1..Len(ranked) :
                       (r < t /\ ranked[r] \in junk /\ ranked[t] \in junk)
                           => ComputeAP(SwapRanks(ranked, r, t), ok, junk) = ap

\* The ap of every iteration of eval_from_ranks on a query whose ground truth
\* names database items is the mean precision of the claim for the ranking
\* of the query, its positives and no junk.
InstreAPAsDefined ==
    (kind = "instre" /\ pc = "done") =>
        \A i \in 1..Len(aps) :
            InstreQueryValid(gnd[i]) =>
                aps[i] = MeanPrecision(ranks[i], {gnd[i][k] - 1 : k \in 1..Len(gnd[i])}, {})

C5_MeansOfPerQueryAP ==
    (e_pc = "returned" /\ e_ret.err = "none") =>
        LET val == SetToSeq(e_vs)
        IN  /\ Len(e_aps) = e_nq
            /\ e_ret.mAP = RDivInt(RSum(e_aps), e_nq)
            /\ e_ret.mAP_val =
                   RDivInt(RSum([k \in 1..Len(val) |-> e_aps[val[k] + 1]]), Len(val))

\* A call over ten queries has returned; the validation query has AP 1/2
\* and the mean over all queries is another value.
C5_Witness ==
    /\ e_pc = "returned"
    /\ e_ret.err = "none"
    /\ e_nq = MaxQEval
    /\ e_ret.mAP_val = <<1, 2>>
    /\ e_ret.mAP # e_ret.mAP_val
    /\ e_ret.mAP # RZero

\* The similarity of item d (0-based) in a row of scores.
SimOf(row, d) == row[d + 1]

\* A ranked list of all database items by non-increasing similarity.
RankedDescending(ranked, row) ==
    /\ IsPermutationOf(ranked, DbItems)
    /\ \A r \in 1..(Len(ranked) - 1) :
           SimOf(row, ranked[r]) >= SimOf(row, ranked[r + 1])

\* The ranked list a score method computed for query q (1-based).
RankedListOf(q) == IF kind = "revisited" THEN Col(ranks, q - 1) ELSE ranks[q]

RanksDescending ==
    pc = "done" =>
        \A q \in 1..Len(scores) : RankedDescending(RankedListOf(q), scores[q])

\* C6: after each of the three score methods, the ranked list of every query
\* holds every database item exactly once, by non-increasing similarity, and
\* the call leaves the caller's similarity matrix as it was.
C6_RankedLists == []RanksDescending /\ [][scores' = scores]_vars

\* InstreDataset.score has ranked a query with scores 0, 1, 0: item 1 first,
\* then the tied items.
C6_Witness ==
    /\ kind = "instre"
    /\ pc = "done"
    /\ Len(scores) = 2
    /\ scores[1] = <<0, 1, 0>>
    /\ ranks[1] = <<1, 2, 0>>

\* The sample indices in the files of the ranks 0 .. NUM_NODES *
\* NUM_PROC_PER_NODE - 1.
ShardIndices ==
    UNION {{m_shards[r][k].index : k \in 1..Len(m_shards[r])} :
              r \in 0..(m_cfg.NUM_NODES * m_cfg.NUM_PROC_PER_NODE - 1)}

\* C7: the dictionary merge_features returns has 'inds' strictly ascending,
\* holding exactly the sample indices of the rank files, each once, and
\* 'features' and 'targets' have one row per entry of 'inds'; it is returned
\* whenever some rank file holds a sample.
C7_MergedSortedDeduplicated ==
    m_pc = "done" =>
        /\ (ShardIndices # {}) => m_out.err = "none"
        /\ m_out.err = "none" =>
               /\ \A k \in 1..(Len(m_out.inds) - 1) : m_out.inds[k] < m_out.inds[k + 1]
               /\ Range(m_out.inds) = ShardIndices
               /\ Len(m_out.features) = Len(m_out.inds)
               /\ Len(m_out.targets) = Len(m_out.inds)

\* Four ranks were merged; rank 0 holds index 2 twice, another rank holds it
\* too, and the indices were met in an order that is not ascending.
C7_Witness ==
    /\ m_pc = "done"
    /\ m_cfg.NUM_NODES = 2
    /\ m_cfg.NUM_PROC_PER_NODE = 2
    /\ Len(m_shards[0]) = 2
    /\ m_shards[0][1].index = 2
    /\ m_shards[0][2].index = 2
    /\ \E r \in 1..3 : \E k \in 1..Len(m_shards[r]) : m_shards[r][k].index = 2
    /\ m_out.err = "none"
    /\ m_out.inds = <<0, 1, 2>>

\* Every ground-truth entry of the INSTRE dataset names a database item.
InstreGndValid ==
    \A i \in 1..Len(gnd) : \A k \in 1..Len(gnd[i]) : (gnd[i][k] - 1) \in DbItems

\* C4 (as claimed): a query without positives is scored with AP 0, the call
\* does not raise, and the mean AP of a query set holding such a query is a
\* number in [0, 1].
C4_EmptyPositivesScored ==
    /\ (kind = "instre" /\ pc = "done" /\ InstreGndValid
            /\ \E i \in 1..Len(gnd) : gnd[i] = <<>>)
           => (result.err = "none" /\ RInUnit(result.mAP))
    /\ RevisitedDone =>
           \A v \in Views :
               /\ RInUnit(result[v].map)
               /\ \A i \in 1..Len(gnd) :
                      GndOfView(v)[i].ok = <<>> => result[v].aps[i] = RZero

\* C8 (as claimed): when a ground-truth entry names no database item, the
\* call fails with an index error, and it fails before any ranking is done.
C8_InvalidIndexRejected ==
    (kind = "instre" /\ pc = "done" /\ ~InstreGndValid)
        => (result.err = "IndexError" /\ ranks = <<>>)

\* C9 (as claimed): with no query, or with an empty validation subset, the
\* call reports an empty query set: it raises no ZeroDivisionError and
\* logs no nan mean.
C9_EmptyQuerySetReported ==
    /\ (kind = "instre" /\ pc = "done" /\ InstreGndValid
            /\ (Len(scores) = 0 \/ val_subset = {}))
           => result.err = "EmptyQuerySet"
    /\ (kind = "oxford" /\ pc = "done" /\ Len(scores) = 0)
           => ~result.mean.nan

\* |a / b - c| <= 1/2 for the rational r = a / b scaled: box coordinate c is
\* the rounding of x * ratio.
RoundsTo(x, ratio, c) ==
    2 * Abs(c * ratio[2] - x * ratio[1]) <= ratio[2]

\* The image shows the region of interest: it is that part of the resized
\* file image, or it is the resized crop of the file image.
ShowsRoi(image, whole, roi, ratio) ==
    \/ /\ image.src = whole
       /\ \A k \in 1..4 : RoundsTo(roi[k], ratio, image.box[k])
    \/ /\ image.src = roi
       /\ image.box = WholeOf(image.w, image.h)

ImageReturned ==
    /\ i_pc \in {"load_and_prepare_image", "load_and_prepare_revisited_image"}
    /\ i_ret.err = "none"

\* C10 (as claimed): an image loading method called with a region of
\* interest returns the resized image restricted to it, and called without
\* one returns the whole resized image.
C10_RoiRestrictsImage ==
    ImageReturned =>
        LET whole == WholeOf(i_im.w, i_im.h)
            image == i_ret.image
        IN  IF i_roi = <<>>
            THEN image.src = whole /\ image.box = WholeOf(image.w, image.h)
            ELSE ShowsRoi(image, whole, i_roi, ResizeRatio(i_S, i_im.w, i_im.h))

\* C11 (as claimed): for the similarity rows of the call made, the ranking
\* steps of InstreDataset.score, InstanceRetrievalDataset.score and
\* RevisitedInstanceRetrievalDataset.score give every query the same ranked
\* list, rows with equal scores included, and the ranked list the call
\* computed is the one its ranking step gives for these rows.
C11_TiesBrokenConsistently ==
    pc = "done" =>
        \A q \in 1..Len(scores) :
            /\ RankedListOf(q) = InstreRanks(scores)[q]
            /\ InstreRanks(scores)[q] = OxfordRanks(scores)[q]
            /\ InstreRanks(scores)[q] = Col(RevisitedRanks(scores), q - 1)

\* The ranks whose files merge_features reads.
MergedRanks == 0..(m_cfg.NUM_NODES * m_cfg.NUM_PROC_PER_NODE - 1)

\* The place of rank r in the visit: local_rank = r % NUM_PROC_PER_NODE is
\* the outer loop, node_id = r \div NUM_PROC_PER_NODE the inner one.
VisitPlace(r) ==
    (r % m_cfg.NUM_PROC_PER_NODE) * m_cfg.NUM_NODES + (r \div m_cfg.NUM_PROC_PER_NODE)

\* Row j2 of rank r2 is read before row j of rank r.
ReadBefore(r2, j2, r, j) ==
    \/ VisitPlace(r2) < VisitPlace(r)
    \/ r2 = r /\ j2 < j

\* Row j of rank r is the first row read that holds sample index.
FirstOccurrence(r, j, index) ==
    /\ m_shards[r][j].index = index
    /\ \A r2 \in MergedRanks : \A j2 \in 1..Len(m_shards[r2]) :
           m_shards[r2][j2].index = index => ~ReadBefore(r2, j2, r, j)

\* C12: in the dictionary merge_features returns, features[k] and targets[k]
\* are the feature and the target of one row of one rank file, the first row
\* holding sample index inds[k] in the order the files are read (local_rank
\* outside, node_id inside, rows in file order); no later row replaces it.
C12_FirstOccurrenceWins ==
    (m_pc = "done" /\ m_out.err = "none") =>
        \A k \in 1..Len(m_out.inds) :
            \E r \in MergedRanks : \E j \in 1..Len(m_shards[r]) :
                /\ FirstOccurrence(r, j, m_out.inds[k])
                /\ m_out.features[k] = m_shards[r][j].feat
                /\ m_out.targets[k] = m_shards[r][j].target

\* Four ranks were merged; sample 0 is in the files of rank 1 and, twice, of
\* rank 2, which is read before rank 1: the output holds the first row of
\* rank 2.
C12_Witness ==
    /\ m_pc = "done"
    /\ m_cfg.NUM_NODES = 2
    /\ m_cfg.NUM_PROC_PER_NODE = 2
    /\ Len(m_shards[1]) = 1 /\ m_shards[1][1].index = 0
    /\ Len(m_shards[2]) = 2
    /\ m_shards[2][1].index = 0 /\ m_shards[2][2].index = 0
    /\ m_out.err = "none"
    /\ m_out.inds[1] = 0
    /\ m_out.features[1] = <<"f", 2, 0>>
    /\ m_out.targets[1] = <<"t", 2, 0>>

====
